---- MODULE Spec2Model ----
(***************************************************************************)
(* The staged generation pipeline of System-Design-Copilot                 *)
(* (backend/agent.py, backend/tools.py, backend/schemas.py,                *)
(* backend/main.py) as a state machine.                                    *)
(*                                                                         *)
(* JSON values (what json.loads returns, what a stage stores in the run    *)
(* state) are records [k, v, f]: k is the Python type, v the items of a    *)
(* list / the text of a string / the digits of a number, f the entries of  *)
(* a dict.  Python floats are modelled as exact rationals.                 *)
(*                                                                         *)
(* Spec: requests to /api/analyze on one controller, offline or against a  *)
(* service that may answer anything.  SpecConcurrent: the same requests    *)
(* against a flaky service, more of them at a time.  SpecTools: single     *)
(* calls of the functions of tools.py and of /api/validate, /api/estimate. *)
(* SpecLimiter: invocations of rate_limiter one after the other, for two   *)
(* callers.  SpecLimiterThreads: invocations of rate_limiter for one       *)
(* caller on two threads of the threadpool, interleaved statement by       *)
(* statement.  The requests of Spec and SpecConcurrent are fewer than the  *)
(* capacity of a bucket, so the limiter admits each of them.               *)
(***************************************************************************)
EXTENDS Integers, Sequences, FiniteSets, TLC

(***************************************************************************)
(* Bounds of the exploration.                                              *)
(***************************************************************************)
\* runs explored on a controller built without a credential
MaxOfflineRuns == 2
\* runs explored on a controller built with a credential
MaxOnlineRuns == 1
\* runs explored on a controller built with a credential when the service
\* only fails or answers what it is asked
MaxConcurrentRuns == 2

Max2(a, b) == IF a >= b THEN a ELSE b

Runs == 1..Max2(MaxOfflineRuns, Max2(MaxOnlineRuns, MaxConcurrentRuns))

\* the readings of time.time() explored are whole multiples of
\* 1 / TicksPerSecond seconds, up to MaxTicks of them
TicksPerSecond == 4
MaxTicks == 1
\* invocations of rate_limiter explored in a behaviour
MaxRequests == 122
\* those of them explored statement by statement, so that they may overlap
\* (the others run while no other invocation is under way)
MaxStepped == 3

(***************************************************************************)
(* JSON values.                                                            *)
(***************************************************************************)
EmptyDict == <<>>

JNull == [k |-> "null", v |-> <<>>, f |-> EmptyDict]

JList(items) == [k |-> "list", v |-> items, f |-> EmptyDict]

JStr(s) == [k |-> "str", v |-> <<s>>, f |-> EmptyDict]

\* a JSON number, by its decimal digits
JNum(digits) == [k |-> "num", v |-> digits, f |-> EmptyDict]

JObj(entries) == [k |-> "obj", v |-> <<>>, f |-> entries]

\* text that is no JSON document
NotJson == [k |-> "notjson", v |-> <<>>, f |-> EmptyDict]

\* Python truth value of a JSON value (the `x or default` idiom)
Truthy(j) ==
    CASE j.k = "null" -> FALSE
      [] j.k = "list" -> j.v # <<>>
      [] j.k = "str" -> j.v # <<"">>
      [] j.k = "num" -> j.v # <<"0">>
      [] j.k = "obj" -> DOMAIN j.f # {}
      [] OTHER -> FALSE

\* only a dict has .get; on a list, a number, a string or None the
\* attribute lookup raises AttributeError
HasGet(j) == j.k = "obj"

\* dict.get(key, default)
Get(j, key, default) == IF key \in DOMAIN j.f THEN j.f[key] ELSE default

(***************************************************************************)
(* backend/tools.py.  A float is the exact rational [n, d] it stands for;  *)
(* round(x, p) is the nearest multiple of 10^-p, an exact tie going to the *)
(* even one, returned as the integer x * 10^p.                             *)
(***************************************************************************)
RECURSIVE GCD(_, _)
GCD(a, b) == IF b = 0 THEN a ELSE GCD(b, a % b)

Rat(n, d) == LET g == GCD(n, d) IN [n |-> n \div g, d |-> d \div g]

RMul(p, q) ==
    LET a == Rat(p.n, q.d)
        b == Rat(q.n, p.d)
    IN  [n |-> a.n * b.n, d |-> a.d * b.d]

RSub(p, q) ==
    LET g == GCD(p.d, q.d)
    IN  Rat(p.n * (q.d \div g) - q.n * (p.d \div g), (p.d \div g) * q.d)

RLess(p, q) == p.n * q.d < q.n * p.d

RMax(p, q) == IF RLess(p, q) THEN q ELSE p

\* round(x, places) with scale = 10^places, as an integer count of 10^-places
Round(x, scale) ==
    LET num == (x.n % x.d) * scale
        fl == (x.n \div x.d) * scale + num \div x.d
        rem2 == 2 * (num % x.d)
    IN  IF rem2 < x.d THEN fl
        ELSE IF rem2 > x.d THEN fl + 1
        ELSE IF fl % 2 = 0 THEN fl ELSE fl + 1

\* default burst_factor of calc_qps, in tenths (1.5)
DefaultBurstTenths == 15

\* calc_qps without the concurrency term of the base rate
calc_qps_no_concurrency(dau, peak_concurrency, read_write_ratio, burst_tenths) ==
    LET base_qps == Rat(dau, 864000)
        peak_qps == RMul(base_qps, Rat(burst_tenths, 10))
        read_qps == RMul(peak_qps,
                         Rat(read_write_ratio.n,
                             read_write_ratio.d + read_write_ratio.n))
        write_qps == RSub(peak_qps, read_qps)
    IN  [base_qps |-> Round(base_qps, 100),
         peak_qps |-> Round(peak_qps, 100),
         read_qps |-> Round(read_qps, 100),
         write_qps |-> Round(write_qps, 100)]

\* calc_qps: read_write_ratio is a rational, burst_factor is given in tenths;
\* the four results are in hundredths (round(., 2))
calc_qps(dau, peak_concurrency, read_write_ratio, burst_tenths) ==
    LET base_qps == RMax(Rat(dau, 864000), Rat(peak_concurrency, 10))
        peak_qps == RMul(base_qps, Rat(burst_tenths, 10))
        read_qps == RMul(peak_qps,
                         Rat(read_write_ratio.n,
                             read_write_ratio.d + read_write_ratio.n))
        write_qps == RSub(peak_qps, read_qps)
    IN  [base_qps |-> Round(base_qps, 100),
         peak_qps |-> Round(peak_qps, 100),
         read_qps |-> Round(read_qps, 100),
         write_qps |-> Round(write_qps, 100)]

\* calc_storage with the retention total taken over 30 days whatever the
\* retention
calc_storage_fixed_retention(records_per_user, avg_record_size_kb, retention_days, dau) ==
    LET daily_gb == RMul(Rat(dau, 1024),
                         Rat(records_per_user * avg_record_size_kb, 1024))
        monthly_growth_gb == RMul(daily_gb, Rat(30, 1))
    IN  [daily_gb |-> Round(daily_gb, 1000),
         total_gb_retention |-> Round(monthly_growth_gb, 1000),
         monthly_growth_gb |-> Round(monthly_growth_gb, 1000)]

\* calc_storage: the three results are in thousandths of a GB (round(., 3))
calc_storage(records_per_user, avg_record_size_kb, retention_days, dau) ==
    LET daily_gb == RMul(Rat(dau, 1024),
                         Rat(records_per_user * avg_record_size_kb, 1024))
        total_gb == RMul(daily_gb, Rat(retention_days, 1))
        monthly_growth_gb == RMul(daily_gb, Rat(30, 1))
    IN  [daily_gb |-> Round(daily_gb, 1000),
         total_gb_retention |-> Round(total_gb, 1000),
         monthly_growth_gb |-> Round(monthly_growth_gb, 1000)]

\* "\n".join(lines)
RECURSIVE JoinWith(_, _)
JoinWith(lines, sep) ==
    IF lines = <<>> THEN ""
    ELSE IF Len(lines) = 1 THEN lines[1]
    ELSE lines[1] \o sep \o JoinWith(Tail(lines), sep)

Indent(items) == [i \in 1..Len(items) |-> "  " \o items[i]]

\* `for comp in components` raises TypeError when components is None or a
\* number; the model feeds the renderers lists and these two
NotIterable(j) == j.k \in {"null", "num"}

generate_mermaid_flow(components, flows) ==
    JStr(JoinWith(<<"flowchart TD">> \o Indent(components.v) \o Indent(flows.v),
                  "\n"))

generate_mermaid_components(components) ==
    JStr(JoinWith(<<"graph LR">> \o Indent(components.v), "\n"))

\* str.upper on the tags of the model
Upper(s) ==
    CASE s = "phi" -> "PHI"
      [] s = "Phi" -> "PHI"
      [] s = "pii" -> "PII"
      [] s = "hipaa" -> "HIPAA"
      [] s = "pci" -> "PCI"
      [] s = "card" -> "CARD"
      [] s = "gdpr" -> "GDPR"
      [] s = "soc2" -> "SOC2"
      [] OTHER -> s

AnyUpperIn(flags, tags) == \E i \in 1..Len(flags) : Upper(flags[i]) \in tags

HealthAdvisory == "PHI present: require HIPAA controls, BAA, access logging"

CardAdvisory == "PCI data: segment card data environment, tokenization, yearly SAQ"

PersonalAdvisory == "PII present: need data minimization, DSR workflows, encryption at rest"

GenericAdvisory == "Standard web-app risks: OWASP Top 10, SSRF, IDOR, rate limiting"

\* risk_checklist comparing the tags as given, without upper()
risk_checklist_case_sensitive(compliance_flags, data_types) ==
    LET AnyIn(flags, tags) == \E i \in 1..Len(flags) : flags[i] \in tags
        r1 == IF AnyIn(compliance_flags \o data_types, {"HIPAA", "PHI"})
              THEN <<HealthAdvisory>> ELSE <<>>
        r2 == IF AnyIn(compliance_flags \o data_types, {"PCI", "CARD"})
              THEN r1 \o <<CardAdvisory>> ELSE r1
        r3 == IF AnyIn(data_types, {"PII"})
              THEN r2 \o <<PersonalAdvisory>> ELSE r2
    IN  IF r3 = <<>> THEN <<GenericAdvisory>> ELSE r3

risk_checklist(compliance_flags, data_types) ==
    LET r1 == IF AnyUpperIn(compliance_flags \o data_types, {"HIPAA", "PHI"})
              THEN <<HealthAdvisory>> ELSE <<>>
        r2 == IF AnyUpperIn(compliance_flags \o data_types, {"PCI", "CARD"})
              THEN r1 \o <<CardAdvisory>> ELSE r1
        r3 == IF AnyUpperIn(data_types, {"PII"})
              THEN r2 \o <<PersonalAdvisory>> ELSE r2
    IN  IF r3 = <<>> THEN <<GenericAdvisory>> ELSE r3

(***************************************************************************)
(* backend/schemas.py: InputPayload.  An Optional[int] left out is         *)
(* NoneInt, an Optional[str] left out is NoneStr.                          *)
(***************************************************************************)
NoneInt == -1

NoneStr == ""

\* InputPayload without the budget_level validator
validate_budget_any(v) == TRUE

validate_budget(v) == v \in {"low", "medium", "high"}

validate_pattern(v) == v \in {"steady", "spiky"}

\* InputPayload(**payload) succeeds
ValidInput(p) ==
    /\ p.dau >= 1
    /\ p.peak_rps >= 1
    /\ p.read_write_ratio.n > 0
    /\ p.peak_concurrent_users = NoneInt \/ p.peak_concurrent_users >= 1
    /\ validate_budget(p.budget_level)
    /\ validate_pattern(p.traffic_pattern)

\* the fields named by ValidationError.errors() when InputPayload(**payload)
\* raises
InputErrors(p) ==
    {field \in {"dau", "peak_rps", "read_write_ratio", "peak_concurrent_users",
                "budget_level", "traffic_pattern"} :
        \/ field = "dau" /\ p.dau < 1
        \/ field = "peak_rps" /\ p.peak_rps < 1
        \/ field = "read_write_ratio" /\ p.read_write_ratio.n <= 0
        \/ field = "peak_concurrent_users"
              /\ p.peak_concurrent_users # NoneInt /\ p.peak_concurrent_users < 1
        \/ field = "budget_level" /\ ~validate_budget(p.budget_level)
        \/ field = "traffic_pattern" /\ ~validate_pattern(p.traffic_pattern)}

\* model_dump() of a constructed InputPayload: the fields, as a dict
model_dump(p) == p

(***************************************************************************)
(* The generation service.  One call either raises or returns a text: an   *)
(* optional opening fence ("```json" or "```"), a body, and an optional    *)
(* closing fence "```".                                                    *)
(***************************************************************************)
ServiceError == [raise |-> TRUE, fence |-> "none", closed |-> FALSE, body |-> NotJson]

Text(fence, closed, body) ==
    [raise |-> FALSE, fence |-> fence, closed |-> closed, body |-> body]

\* the outcome recorded for a stage that asked nothing of the service
NoOutcome == [raise |-> FALSE, fence |-> "none", closed |-> FALSE, body |-> JNull]

\* body[:-3] of a body no closing fence follows: a number of more than three
\* digits loses its last three, every other document stops being one
Chop3(body) ==
    IF body.k = "num" /\ Len(body.v) > 3
    THEN JNum(SubSeq(body.v, 1, Len(body.v) - 3))
    ELSE NotJson

\* agent.py 81-85: content[7:-3] after "```json", content[3:-3] after "```"
StripFence(t) ==
    IF t.fence \in {"json", "plain"}
    THEN Text("none", FALSE, IF t.closed THEN t.body ELSE Chop3(t.body))
    ELSE t

\* json.loads(content) returns a value (otherwise it raises)
Parses(content) ==
    content.fence = "none" /\ ~content.closed /\ content.body.k # "notjson"

\* _call_llm without the `except Exception` around json.loads: a text that
\* does not parse raises out of the method
_call_llm_uncaught(mock_mode, fallback, outcome) ==
    IF mock_mode
    THEN [res |-> fallback, invoked |-> 0, exc |-> FALSE]
    ELSE IF outcome.raise
    THEN [res |-> fallback, invoked |-> 1, exc |-> FALSE]
    ELSE LET content == StripFence(outcome)
         IN  IF Parses(content)
             THEN [res |-> content.body, invoked |-> 1, exc |-> FALSE]
             ELSE [res |-> fallback, invoked |-> 1, exc |-> TRUE]

\* _call_llm without the mock_mode test
_call_llm_no_mock(mock_mode, fallback, outcome) ==
    IF outcome.raise
    THEN [res |-> fallback, invoked |-> 1, exc |-> FALSE]
    ELSE LET content == StripFence(outcome)
         IN  IF Parses(content)
             THEN [res |-> content.body, invoked |-> 1, exc |-> FALSE]
             ELSE [res |-> fallback, invoked |-> 1, exc |-> FALSE]

\* _call_llm calling llm.invoke a second time after an error
_call_llm_retry(mock_mode, fallback, outcome) ==
    IF mock_mode
    THEN [res |-> fallback, invoked |-> 0, exc |-> FALSE]
    ELSE IF outcome.raise
    THEN [res |-> fallback, invoked |-> 2, exc |-> FALSE]
    ELSE LET content == StripFence(outcome)
         IN  IF Parses(content)
             THEN [res |-> content.body, invoked |-> 1, exc |-> FALSE]
             ELSE [res |-> fallback, invoked |-> 1, exc |-> FALSE]

\* AgenticCopilot._call_llm: the value returned, the number of llm.invoke
\* calls issued, whether an exception leaves the method
_call_llm(mock_mode, fallback, outcome) ==
    IF mock_mode
    THEN [res |-> fallback, invoked |-> 0, exc |-> FALSE]
    ELSE IF outcome.raise
    THEN [res |-> fallback, invoked |-> 1, exc |-> FALSE]
    ELSE LET content == StripFence(outcome)
         IN  IF Parses(content)
             THEN [res |-> content.body, invoked |-> 1, exc |-> FALSE]
             ELSE [res |-> fallback, invoked |-> 1, exc |-> FALSE]

(***************************************************************************)
(* AgentState and the langgraph state update.                              *)
(***************************************************************************)
SchemaKeys ==
    {"input", "assumptions", "plan_steps", "sizing", "architecture_options",
     "recommended_option", "mermaid_flow", "mermaid_components", "api_design",
     "performance_plan", "reliability_plan", "security_plan", "threat_model",
     "observability", "summary", "tech_stack", "risks", "phased_rollout"}

\* the channels annotated with operator.add
AddKeys == {"assumptions", "plan_steps"}

\* the update with every channel overwritten, the operator.add ones too
ApplyUpdate_overwrite(state, upd) ==
    LET written == DOMAIN upd \cap SchemaKeys
    IN  [key \in DOMAIN state \cup written |->
            IF key \in written THEN upd[key] ELSE state[key]]

\* a node's returned dict written into the state: keys outside the schema
\* are dropped, an operator.add channel gets old + new (starting empty),
\* every other channel is overwritten
ApplyUpdate(state, upd) ==
    LET written == DOMAIN upd \cap SchemaKeys
    IN  [key \in DOMAIN state \cup written |->
            IF key \notin written THEN state[key]
            ELSE IF key \in AddKeys
            THEN JList((IF key \in DOMAIN state THEN state[key].v ELSE <<>>)
                       \o upd[key].v)
            ELSE upd[key]]

\* state.get(key): None when the key is absent
StateGet(state, key) == IF key \in DOMAIN state THEN state[key] ELSE JNull

\* `x or default`
OrElse(x, default) == IF Truthy(x) THEN x ELSE default

\* what a node hands back: it raised, or a dict of updates; plus the call
\* it made to _call_llm (fallback, value returned, llm.invoke calls)
NoCall == [fallback |-> JNull, res |-> JNull, invoked |-> 0, exc |-> FALSE]

Returned(upd, call) == [raised |-> FALSE, upd |-> upd, call |-> call]

Raised(call) == [raised |-> TRUE, upd |-> EmptyDict, call |-> call]

CallRecord(fallback, c) ==
    [fallback |-> fallback, res |-> c.res, invoked |-> c.invoked, exc |-> c.exc]

(***************************************************************************)
(* The node functions of AgenticCopilot.  The prompts only feed the        *)
(* service, whose answer is unconstrained, and are left out.               *)
(***************************************************************************)
_intake_validate(state) ==
    IF ~ValidInput(state["input"]) THEN Raised(NoCall)
    ELSE Returned(("input" :> model_dump(state["input"]))
                  @@ ("assumptions" :> JList(<<"Inputs normalized">>))
                  @@ ("notes" :> JList(<<>>)),
                  NoCall)

_planner(state) ==
    LET inp == state["input"]
        pat == inp.traffic_pattern
        assumptions ==
            << "Traffic pattern is " \o pat \o " with peak "
                   \o ToString(inp.peak_rps) \o " rps",
               "Regions: " \o JoinWith(inp.regions, ", "),
               "Budget level: " \o inp.budget_level >>
        withDomain ==
            IF inp.domain # NoneStr
            THEN assumptions \o <<"Application domain: " \o inp.domain>>
            ELSE assumptions
        needed == <<"sizing", "architecture", "api", "performance", "security",
                    "reliability">>
    IN  Returned(("assumptions" :> JList(withDomain))
                 @@ ("plan_steps" :> JList(needed)),
                 NoCall)

\* _sizing with the steady multiplier whatever the traffic pattern
_sizing_steady_burst(state) ==
    LET inp == state["input"]
        peak_concurrency ==
            IF inp.peak_concurrent_users \notin {NoneInt, 0}
            THEN inp.peak_concurrent_users
            ELSE inp.dau \div 10
        qps == calc_qps(inp.dau, peak_concurrency, inp.read_write_ratio, 14)
        storage == calc_storage(12, 8, 365, inp.dau)
        bandwidth_gbps ==
            Round(RMul(Rat(qps.peak_qps, 100), Rat(2 * 1024, 1000000)), 1000)
    IN  Returned("sizing" :> [qps |-> qps, storage |-> storage,
                              bandwidth_gbps |-> bandwidth_gbps],
                 NoCall)

_sizing(state) ==
    LET inp == state["input"]
        pat == inp.traffic_pattern
        multiplier == IF pat = "spiky" THEN 18 ELSE 14
        peak_concurrency ==
            IF inp.peak_concurrent_users \notin {NoneInt, 0}
            THEN inp.peak_concurrent_users
            ELSE inp.dau \div 10
        qps == calc_qps(inp.dau, peak_concurrency, inp.read_write_ratio, multiplier)
        storage == calc_storage(12, 8, 365, inp.dau)
        \* round(peak_qps * 2 * 1024 / 1e6, 3), peak_qps being in hundredths
        bandwidth_gbps ==
            Round(RMul(Rat(qps.peak_qps, 100), Rat(2 * 1024, 1000000)), 1000)
    IN  Returned("sizing" :> [qps |-> qps, storage |-> storage,
                              bandwidth_gbps |-> bandwidth_gbps],
                 NoCall)

default_options ==
    << [title |-> "MVP (monolith)",
        bullets |-> <<"FastAPI + SQLite (dev) / Postgres (prod)", "Redis cache">>],
       [title |-> "Scale-out",
        bullets |-> <<"Microservices on K8s", "Managed DB (RDS)", "Kafka for async">>] >>

\* the fallback recommending the scale-out option whatever the budget
ArchitectureFallback_always_scale(inp) ==
    JObj(("options" :> JList(default_options))
         @@ ("recommended_option" :> JStr("Scale-out"))
         @@ ("flows" :> JList(<<"A[Client]-->B[LB]", "B-->C[App Server]",
                               "C-->D[(Database)]">>))
         @@ ("components" :> JList(<<"A[Client]", "B[LB]", "C[App Server]",
                                    "D[(Database)]">>)))

ArchitectureFallback(inp) ==
    JObj(("options" :> JList(default_options))
         @@ ("recommended_option" :>
                JStr(IF inp.budget_level = "low" THEN "MVP (monolith)" ELSE "Scale-out"))
         @@ ("flows" :> JList(<<"A[Client]-->B[LB]", "B-->C[App Server]",
                               "C-->D[(Database)]">>))
         @@ ("components" :> JList(<<"A[Client]", "B[LB]", "C[App Server]",
                                    "D[(Database)]">>)))

_architecture(state, mock_mode, outcome) ==
    LET fallback == ArchitectureFallback(state["input"])
        c == _call_llm(mock_mode, fallback, outcome)
        call == CallRecord(fallback, c)
        res == c.res
        components == Get(res, "components", fallback.f["components"])
        flows == Get(res, "flows", fallback.f["flows"])
    IN  IF c.exc \/ ~HasGet(res) THEN Raised(call)
        ELSE IF NotIterable(components) \/ NotIterable(flows) THEN Raised(call)
        ELSE Returned(
                ("architecture_options" :> Get(res, "options", JList(default_options)))
                @@ ("recommended_option" :>
                       Get(res, "recommended_option", fallback.f["recommended_option"]))
                @@ ("mermaid_flow" :> generate_mermaid_flow(components, flows))
                @@ ("mermaid_components" :> generate_mermaid_components(components)),
                call)

ApisFallback ==
    JList(<< [method |-> "POST", path |-> "/api/v1/resource",
              description |-> "Create a new resource.",
              request |-> [name |-> "string"], response |-> [id |-> "string"],
              rate_limit_rpm |-> 60, idempotent |-> FALSE] >>)

_apis(state, mock_mode, outcome) ==
    LET c == _call_llm(mock_mode, ApisFallback, outcome)
        call == CallRecord(ApisFallback, c)
    IN  IF c.exc THEN Raised(call)
        ELSE Returned("api_design" :> c.res, call)

_perf_rel(state) ==
    LET performance ==
            <<"Edge CDN for static assets, API behind reverse proxy with HTTP keep-alive",
              "Redis caching with 70-90% target hit rate for read-heavy endpoints",
              "Async workers for generating reports; queue depth alarms",
              "Pagination + index on created_at for submissions table",
              "Blue/green deploys and feature flags for rollouts">>
        reliability ==
            <<"SLO: 99.5% availability, p95 < 400ms for analyze endpoint",
              "Retries with jitter for downstream LLM calls, idempotency keys on POST",
              "Backups daily, PITR for Postgres, replica in second region for DR (RPO 1h, RTO 4h)",
              "Health checks, autoscale based on queue length and CPU">>
    IN  Returned(("performance_plan" :> JList(performance))
                 @@ ("reliability_plan" :> JList(reliability)),
                 NoCall)

SecurityFallback(inp) ==
    LET fallback_threats ==
            risk_checklist(IF inp.compliance # <<>> THEN inp.compliance
                           ELSE <<"SOC2", "GDPR">>,
                           IF inp.data_types # <<>> THEN inp.data_types
                           ELSE <<"PII">>)
    IN  JObj(("security_plan" :> JList(<<"AuthN with OIDC", "mTLS", "Secrets Vault",
                                        "WAF", "Encryption at rest">>))
             @@ ("threat_model" :> JList(fallback_threats))
             @@ ("observability" :> JList(<<"Prometheus metrics", "ELK logging",
                                           "Jaeger tracing", "PagerDuty alerts">>)))

\* _security taking the whole fallback as soon as the answer lacks a field
_security_all_or_nothing(state, mock_mode, outcome) ==
    LET fallback == SecurityFallback(state["input"])
        c == _call_llm(mock_mode, fallback, outcome)
        call == CallRecord(fallback, c)
        res == IF HasGet(c.res) /\ DOMAIN fallback.f \subseteq DOMAIN c.res.f
               THEN c.res ELSE fallback
    IN  Returned(
            ("security_plan" :> res.f["security_plan"])
            @@ ("threat_model" :> res.f["threat_model"])
            @@ ("observability" :> res.f["observability"]),
            call)

_security(state, mock_mode, outcome) ==
    LET fallback == SecurityFallback(state["input"])
        c == _call_llm(mock_mode, fallback, outcome)
        call == CallRecord(fallback, c)
        res == c.res
    IN  IF c.exc \/ ~HasGet(res) THEN Raised(call)
        ELSE Returned(
                ("security_plan" :> Get(res, "security_plan", fallback.f["security_plan"]))
                @@ ("threat_model" :> Get(res, "threat_model", fallback.f["threat_model"]))
                @@ ("observability" :> Get(res, "observability", fallback.f["observability"])),
                call)

\* agent.py 254-259: first occurrences, in order
RECURSIVE Dedup(_, _)
Dedup(items, seen) ==
    IF items = <<>> THEN <<>>
    ELSE IF Head(items) \in seen THEN Dedup(Tail(items), seen)
    ELSE <<Head(items)>> \o Dedup(Tail(items), seen \cup {Head(items)})

FinalFallback(inp) ==
    JObj(("summary" :> JStr("System design for " \o inp.app_name \o " supporting "
                            \o ToString(inp.dau) \o " DAU."))
         @@ ("tech_stack" :> JList(<<"FastAPI", "Postgres", "Redis", "Docker", "AWS">>))
         @@ ("phased_rollout" :> JList(<<"Phase 1: MVP", "Phase 2: Scale",
                                        "Phase 3: Global">>)))

\* the two cautionary statements in the opposite order
FixedRisks_swapped ==
    <<"Cost overrun if prompt volume spikes; add budget guardrails",
      "LLM dependency latency/availability; keep mock fallback">>

\* agent.py 248-251: the statements _final adds after the threat model
FixedRisks ==
    <<"LLM dependency latency/availability; keep mock fallback",
      "Cost overrun if prompt volume spikes; add budget guardrails">>

_final(state, mock_mode, outcome) ==
    LET fallback == FinalFallback(state["input"])
        c == _call_llm(mock_mode, fallback, outcome)
        call == CallRecord(fallback, c)
        res == c.res
        sizing == IF "sizing" \in DOMAIN state THEN state["sizing"] ELSE JObj(EmptyDict)
        upstream == OrElse(StateGet(state, "threat_model"), JList(<<>>))
        unique_assumptions ==
            Dedup(OrElse(StateGet(state, "assumptions"), JList(<<>>)).v, {})
        orList(key) == OrElse(StateGet(state, key), JList(<<>>))
    IN  IF c.exc THEN Raised(call)
        \* list + non-list raises TypeError
        ELSE IF upstream.k # "list" THEN Raised(call)
        ELSE IF ~HasGet(res) THEN Raised(call)
        ELSE Returned(
                ("summary" :> Get(res, "summary", fallback.f["summary"]))
                @@ ("assumptions" :> JList(unique_assumptions))
                @@ ("architecture_options" :> orList("architecture_options"))
                @@ ("recommended_option" :>
                       OrElse(StateGet(state, "recommended_option"), JStr("N/A")))
                @@ ("tech_stack" :> Get(res, "tech_stack", fallback.f["tech_stack"]))
                @@ ("sizing" :> sizing)
                @@ ("api_design" :> orList("api_design"))
                @@ ("performance_plan" :> orList("performance_plan"))
                @@ ("security_plan" :> orList("security_plan"))
                @@ ("reliability_plan" :> orList("reliability_plan"))
                @@ ("risks" :> JList(upstream.v \o FixedRisks))
                @@ ("phased_rollout" :>
                       Get(res, "phased_rollout", fallback.f["phased_rollout"]))
                @@ ("mermaid_flow" :> OrElse(StateGet(state, "mermaid_flow"), JStr("")))
                @@ ("mermaid_components" :>
                       OrElse(StateGet(state, "mermaid_components"), JStr("")))
                @@ ("observability" :> orList("observability"))
                @@ ("threat_model" :> orList("threat_model")),
                call)

(***************************************************************************)
(* AgenticCopilot._build_graph.                                            *)
(***************************************************************************)
END == "__end__"

EntryPoint == "intake_validate"

Nodes ==
    {"intake_validate", "planner", "sizing_estimator", "architecture_generator",
     "api_designer", "performance_reliability", "security_compliance",
     "final_report"}

\* the graph with the planner wired past the sizing node
Edge_skip_sizing ==
    ("intake_validate" :> "planner")
    @@ ("planner" :> "architecture_generator")
    @@ ("sizing_estimator" :> "architecture_generator")
    @@ ("architecture_generator" :> "api_designer")
    @@ ("api_designer" :> "performance_reliability")
    @@ ("performance_reliability" :> "security_compliance")
    @@ ("security_compliance" :> "final_report")
    @@ ("final_report" :> END)

Edge ==
    ("intake_validate" :> "planner")
    @@ ("planner" :> "sizing_estimator")
    @@ ("sizing_estimator" :> "architecture_generator")
    @@ ("architecture_generator" :> "api_designer")
    @@ ("api_designer" :> "performance_reliability")
    @@ ("performance_reliability" :> "security_compliance")
    @@ ("security_compliance" :> "final_report")
    @@ ("final_report" :> END)

\* graph.add_node: the function run at each node
NodeFn(node, st, mock, outcome) ==
    CASE node = "intake_validate" -> _intake_validate(st)
      [] node = "planner" -> _planner(st)
      [] node = "sizing_estimator" -> _sizing(st)
      [] node = "architecture_generator" -> _architecture(st, mock, outcome)
      [] node = "api_designer" -> _apis(st, mock, outcome)
      [] node = "performance_reliability" -> _perf_rel(st)
      [] node = "security_compliance" -> _security(st, mock, outcome)
      [] node = "final_report" -> _final(st, mock, outcome)


(***************************************************************************)
(* backend/schemas.py: OutputPayload, and the Submission row of            *)
(* backend/database.py.                                                    *)
(***************************************************************************)
\* the fields of OutputPayload typed str, and those typed List[...]
OutputStrFields ==
    {"summary", "recommended_option", "mermaid_flow", "mermaid_components"}

OutputListFields ==
    {"assumptions", "architecture_options", "tech_stack", "api_design",
     "performance_plan", "security_plan", "reliability_plan", "risks",
     "phased_rollout", "observability", "threat_model"}

\* OutputPayload(**result) succeeds: every required field is there with a
\* value of its type (the items of the lists explored are of the item type)
ReportSectionFields == {"title", "bullets"}

APIExampleFields ==
    {"method", "path", "description", "request", "response", "rate_limit_rpm",
     "idempotent"}

\* the item model of a list field of OutputPayload: its declared fields, all
\* of them required ({} for the fields typed List[str])
ItemFields(key) ==
    CASE key = "architecture_options" -> ReportSectionFields
      [] key = "api_design" -> APIExampleFields
      [] OTHER -> {}

\* ReportSection(**item) / APIExample(**item) dumped: the declared fields,
\* the other keys of the item ignored
ItemDump(key, item) ==
    IF ItemFields(key) = {} THEN item
    ELSE [field \in ItemFields(key) |-> item[field]]

ValidOutput(result) ==
    /\ OutputStrFields \cup OutputListFields \cup {"sizing"} \subseteq DOMAIN result
    /\ \A key \in OutputStrFields : result[key].k = "str"
    /\ \A key \in OutputListFields : result[key].k = "list"
    /\ \A key \in {"architecture_options", "api_design"} :
          \A i \in 1..Len(result[key].v) :
              ItemFields(key) \subseteq DOMAIN result[key].v[i]

\* OutputPayload(**result).model_dump(): the declared fields only (input,
\* plan_steps and any other key of the final state are ignored), the items
\* of architecture_options and api_design dumped by their models, and
\* submission_id None
output_model_dump(result) ==
    [key \in OutputStrFields \cup OutputListFields \cup {"sizing", "submission_id"} |->
        IF key = "submission_id" THEN JNull
        ELSE IF ItemFields(key) = {} THEN result[key]
        ELSE JList([i \in 1..Len(result[key].v) |-> ItemDump(key, result[key].v[i])])]

\* json.dumps of a dict of str keys over dicts, lists, strings, numbers and
\* None: the JSON text, by the document it spells.  Every value dumped here
\* is of these kinds (no tuple, set, datetime or key that is no str), so the
\* document spells the value itself
json_dumps(value) == [json |-> value]

\* json.loads of a text written by json.dumps: the value the document spells
json_loads(text) == text.json

\* Submission(title, input_json, output_json) once committed under an id
Submission(id, title, input_json, output_json) ==
    [id |-> id, title |-> title, input_json |-> input_json,
     output_json |-> output_json]

\* Submission.to_dict (created_at left out: the model keeps no clock)
to_dict(row) ==
    [id |-> row.id, title |-> row.title,
     input |-> json_loads(row.input_json),
     output |-> json_loads(row.output_json)]

\* SubmissionResponse(**d) as the handler returns it: input and output
\* validated and dumped by their models again
SubmissionResponse(d) ==
    [id |-> d.id, title |-> d.title,
     input |-> model_dump(d.input),
     output |-> output_model_dump(d.output)]

(***************************************************************************)
(* The request payloads and the service answers explored.                  *)
(***************************************************************************)
\* the scenario of the validation tests, and a spiky health/card profile
ProfileA(budget) ==
    [app_name |-> "TestApp", dau |-> 1000, peak_rps |-> 50,
     read_write_ratio |-> Rat(3, 1), regions |-> <<"us-east">>,
     budget_level |-> budget, domain |-> "fintech",
     peak_concurrent_users |-> NoneInt, traffic_pattern |-> "steady",
     data_types |-> <<>>, compliance |-> <<>>]

ProfileB(budget) ==
    [app_name |-> "Clinic", dau |-> 1000, peak_rps |-> 50,
     read_write_ratio |-> Rat(4, 1), regions |-> <<"us-east", "eu-west">>,
     budget_level |-> budget, domain |-> NoneStr,
     peak_concurrent_users |-> 500, traffic_pattern |-> "spiky",
     data_types |-> <<"phi">>, compliance |-> <<"PCI">>]

\* three valid payloads, one per budget level, and three that validation
\* rejects: a budget level and a traffic pattern outside the allowed values,
\* a user count below its bound
Payloads ==
    {ProfileA("low"), ProfileA("medium"), ProfileB("high"), ProfileA("ultra"),
     [ProfileA("medium") EXCEPT !.traffic_pattern = "erratic"],
     [ProfileA("medium") EXCEPT !.dau = 0]}

LlmOptions ==
    JList(<< [title |-> "Serverless", bullets |-> <<"Lambda", "DynamoDB">>,
              cost |-> "low"],
             [title |-> "Modular monolith", bullets |-> <<"Django", "Postgres">>] >>)

LlmApis ==
    JList(<< [method |-> "GET", path |-> "/api/v1/items",
              description |-> "List items.",
              request |-> [name |-> "none"], response |-> [id |-> "list"],
              rate_limit_rpm |-> 120, idempotent |-> TRUE] >>)

\* the JSON documents the service may answer with, per node: objects with
\* all, some or none of the fields asked for, fields of the wrong type, and
\* documents that are no object
Docs(node) ==
    CASE node = "architecture_generator" ->
            { JObj(EmptyDict),
              JObj(("options" :> LlmOptions)
                   @@ ("recommended_option" :> JNull)
                   @@ ("flows" :> JList(<<"U[User]-->B[LB]">>))),
              JObj("components" :> JNull),
              JList(<<"Serverless">>),
              JNum(<<"1", "2", "3", "4">>),
              JNull }
      [] node = "api_designer" ->
            { LlmApis, JNull }
      [] node = "security_compliance" ->
            { JObj(EmptyDict),
              JObj(("security_plan" :> JNull)
                   @@ ("threat_model" :> JList(<<"Credential stuffing">>))),
              JObj("threat_model" :> JStr("high")),
              JList(<<"Credential stuffing">>) }
      [] node = "final_report" ->
            { JObj(EmptyDict),
              JObj(("summary" :> JStr("A serverless design."))
                   @@ ("tech_stack" :> JNull)),
              JList(<<"A serverless design.">>) }
      [] OTHER -> {}

\* a document of the shape the node's prompt asks for
GoodDoc(node) ==
    CASE node = "architecture_generator" ->
            JObj(("options" :> LlmOptions)
                 @@ ("recommended_option" :> JNull)
                 @@ ("flows" :> JList(<<"U[User]-->B[LB]">>)))
      [] node = "api_designer" -> LlmApis
      [] node = "security_compliance" ->
            JObj(("security_plan" :> JNull)
                 @@ ("threat_model" :> JList(<<"Credential stuffing">>)))
      [] OTHER ->
            JObj(("summary" :> JStr("A serverless design."))
                 @@ ("tech_stack" :> JNull))

\* the node whose answers are also explored wrapped in code fences (the
\* fences are stripped in _call_llm, the same for every node)
FencedNodes == {"architecture_generator"}

Fenced(node) ==
    {Text(fence, closed, GoodDoc(node)) :
        fence \in {"json", "plain"}, closed \in BOOLEAN}
    \cup {Text("none", TRUE, GoodDoc(node))}
    \cup {Text("json", FALSE, d) : d \in {j \in Docs(node) : j.k = "num"}}

\* what one call to the service may do: raise, answer a bare document or
\* text that is none, answer a fenced document (fence closed or not)
Outcomes(node) ==
    {ServiceError, Text("none", FALSE, NotJson)}
    \cup {Text("none", FALSE, d) : d \in Docs(node)}
    \cup (IF node \in FencedNodes THEN Fenced(node) ELSE {})

\* a service that is down or answers the document asked for when it gets
\* the Architecture prompt, and is down for the other prompts
FlakyOutcomes(node) ==
    IF node = "architecture_generator"
    THEN {ServiceError, Text("none", FALSE, GoodDoc(node))}
    ELSE {ServiceError}

(***************************************************************************)
(* backend/main.py, rate_limiter.  Time is counted in ticks of             *)
(* 1 / TicksPerSecond s and tokens in units of 1 / TicksPerSecond token,   *)
(* so that refill_rate tokens per second are refill_rate units per tick.   *)
(***************************************************************************)
capacity == 120

refill_rate == 2

\* one token, and the capacity, in units
OneToken == TicksPerSecond

CapacityUnits == capacity * TicksPerSecond

Min2(a, b) == IF a <= b THEN a ELSE b

\* request.client.host if request.client else "anon"
IPs == {"10.0.0.1", "anon"}

\* the dict a caller without an entry starts from
DefaultBucket(now) == [tokens |-> CapacityUnits, ts |-> now]

\* the refill statement: min(capacity, tokens + elapsed * refill_rate)
Refilled(tokens, elapsed) == Min2(CapacityUnits, tokens + elapsed * refill_rate)

\* rate_limiter that takes the token of a request it rejects too
rate_limiter_charge_rejected(tokens_map, ip, now) ==
    LET tokens == IF ip \in DOMAIN tokens_map THEN tokens_map[ip]
                  ELSE DefaultBucket(now)
        refilled == Refilled(tokens.tokens, now - tokens.ts)
    IN  [map |-> (ip :> [tokens |-> refilled - OneToken, ts |-> now]) @@ tokens_map,
         status |-> IF refilled < OneToken THEN 429 ELSE 200]

\* rate_limiter run from its first statement to its last with nothing in
\* between: the token map it leaves and 429 if it raises, 200 if it returns
rate_limiter(tokens_map, ip, now) ==
    LET tokens == IF ip \in DOMAIN tokens_map THEN tokens_map[ip]
                  ELSE DefaultBucket(now)
        refilled == Refilled(tokens.tokens, now - tokens.ts)
    IN  IF refilled < OneToken
        THEN [map |-> (ip :> [tokens |-> refilled, ts |-> now]) @@ tokens_map,
              status |-> 429]
        ELSE [map |-> (ip :> [tokens |-> refilled - OneToken, ts |-> now]) @@ tokens_map,
              status |-> 200]

(***************************************************************************)
(* State.                                                                  *)
(***************************************************************************)
VARIABLES
    mock_mode,  \* AgenticCopilot.mock_mode of the shared controller
    service,    \* the generation service explored: "any" answer to a call,
                \* or "flaky" (FlakyOutcomes)
    pc,         \* per run: "idle", a node, END, "rejected" (400), "raised"
    state,      \* per run: the AgentState dict of the run
    hist,       \* per run: the nodes executed so far, in order
    calls,      \* per run, per node: the llm.invoke calls issued
    last,       \* per run: the node executed last, the state it read, the
                \* service outcome it met and its _call_llm call
    db,         \* the rows of the submissions table, in the order of their ids
    resp,       \* per request: the HTTP response of analyze, once it is sent
    tool,       \* a call of a tools.py function or of a stateless endpoint:
                \* the function, its arguments, its result once it returned
    rate_tokens, \* _RATE_LIMIT["tokens"]: per caller with an entry, the dict
                \* {tokens, ts} stored for it
    clock,      \* what time.time() returns, in ticks
    worker,     \* per threadpool thread: where it is in rate_limiter, and
                \* its locals now, tokens, elapsed
    served,     \* per caller: the invocations that returned (admitted),
                \* those that raised 429 (rejected), and those started
                \* statement by statement (stepped)
    lim         \* the invocation of rate_limiter that ran last from start
                \* to end: caller, time, token map met, status

limiter == <<rate_tokens, clock, worker, served, lim>>

vars == <<mock_mode, service, pc, state, hist, calls, last, db, resp, tool,
          rate_tokens, clock, worker, served, lim>>

\* the threads of the threadpool explored
Threads == {"t1", "t2"}

\* a thread outside rate_limiter
Idle ==
    [pc |-> "idle", ip |-> "", now |-> 0, shared |-> FALSE,
     tokens |-> DefaultBucket(0), elapsed |-> 0, reg |-> 0]

NoInvocation == [ip |-> "", now |-> 0, before |-> EmptyDict, status |-> 0]

\* the module just imported: no entry in the token map, no thread in
\* rate_limiter
InitLimiter ==
    /\ rate_tokens = EmptyDict
    /\ clock = 0
    /\ worker = [t \in Threads |-> Idle]
    /\ served = [ip \in IPs |-> [admitted |-> 0, rejected |-> 0, stepped |-> 0]]
    /\ lim = NoInvocation

\* the responses of analyze: none yet, 400 with the fields in error, 500 for
\* an exception nothing handles, 200 with the id of the row stored
NoResponse == [status |-> 0, detail |-> {}, submission_id |-> 0]

BadRequest(errors) == [status |-> 400, detail |-> errors, submission_id |-> 0]

ServerError == [status |-> 500, detail |-> {}, submission_id |-> 0]

Ok(id) == [status |-> 200, detail |-> {}, submission_id |-> id]

\* no function call under way
NoTool == [fn |-> "none", args |-> <<>>, res |-> <<>>, done |-> FALSE]

NoLast ==
    [node |-> "none", before |-> EmptyDict, outcome |-> NoOutcome,
     raised |-> FALSE, call |-> NoCall]

Init ==
    /\ mock_mode \in BOOLEAN
    /\ service = "any"
    /\ pc = [r \in Runs |-> "idle"]
    /\ state = [r \in Runs |-> EmptyDict]
    /\ hist = [r \in Runs |-> <<>>]
    /\ calls = [r \in Runs |-> [n \in Nodes |-> 0]]
    /\ last = [r \in Runs |-> NoLast]
    /\ db = <<>>
    /\ resp = [r \in Runs |-> NoResponse]
    /\ tool = NoTool
    /\ InitLimiter

Started == {r \in Runs : pc[r] # "idle"}

RunLimit ==
    IF mock_mode THEN MaxOfflineRuns
    ELSE IF service = "flaky" THEN MaxConcurrentRuns
    ELSE MaxOnlineRuns

\* what the service may do with one call
ServiceOutcomes(node) ==
    IF service = "flaky" THEN FlakyOutcomes(node) ELSE Outcomes(node)

\* analyze without the validation of the payload
Analyze_unvalidated(r, payload) ==
    /\ pc[r] = "idle"
    /\ r = Cardinality(Started) + 1
    /\ r <= RunLimit
    /\ pc' = [pc EXCEPT ![r] = EntryPoint]
    /\ state' = [state EXCEPT ![r] = "input" :> model_dump(payload)]
    /\ UNCHANGED <<mock_mode, service, hist, calls, last, db, resp, tool, limiter>>

\* analyze/run starting from the state dict of the run before instead of a
\* fresh one
Analyze_reuse(r, payload) ==
    /\ pc[r] = "idle"
    /\ r = Cardinality(Started) + 1
    /\ r <= RunLimit
    /\ pc' = [pc EXCEPT ![r] = IF ValidInput(payload) THEN EntryPoint ELSE "rejected"]
    /\ state' = [state EXCEPT ![r] =
                    IF ~ValidInput(payload) THEN @
                    ELSE IF r = 1 THEN "input" :> model_dump(payload)
                    ELSE ("input" :> model_dump(payload)) @@ state[r - 1]]
    /\ resp' = [resp EXCEPT ![r] = IF ValidInput(payload) THEN @
                                   ELSE BadRequest(InputErrors(payload))]
    /\ UNCHANGED <<mock_mode, service, hist, calls, last, db, tool, limiter>>

\* main.analyze up to copilot.run: the payload is validated (400 when it is
\* not), run() puts its dump into a fresh state and enters the graph
Analyze(r, payload) ==
    /\ pc[r] = "idle"
    /\ r = Cardinality(Started) + 1
    /\ r <= RunLimit
    /\ pc' = [pc EXCEPT ![r] = IF ValidInput(payload) THEN EntryPoint ELSE "rejected"]
    /\ state' = [state EXCEPT ![r] = IF ValidInput(payload)
                                     THEN "input" :> model_dump(payload)
                                     ELSE @]
    /\ resp' = [resp EXCEPT ![r] = IF ValidInput(payload) THEN @
                                   ELSE BadRequest(InputErrors(payload))]
    /\ UNCHANGED <<mock_mode, service, hist, calls, last, db, tool, limiter>>

\* main.analyze after copilot.run: an exception of the run is a 500; the
\* result of a run that ended is validated as OutputPayload (500 when it is
\* not one), stored with the payload under the next id and answered with
\* that id
\* the outcome of a run that answers 200 without having added its row
AfterRun_unsaved(r, node, result) ==
    LET output == ApplyUpdate(state[r], result.upd)
    IN  IF result.raised
        THEN /\ resp' = [resp EXCEPT ![r] = ServerError]
             /\ db' = db
        ELSE IF Edge[node] # END
        THEN UNCHANGED <<db, resp>>
        ELSE IF ~ValidOutput(output)
        THEN /\ resp' = [resp EXCEPT ![r] = ServerError]
             /\ db' = db
        ELSE /\ db' = db
             /\ resp' = [resp EXCEPT ![r] = Ok(Len(db) + 1)]

AfterRun(r, node, result) ==
    LET output == ApplyUpdate(state[r], result.upd)
        submission ==
            Submission(Len(db) + 1, state[r]["input"].app_name,
                       json_dumps(model_dump(state[r]["input"])),
                       json_dumps(output_model_dump(output)))
    IN  IF result.raised
        THEN /\ resp' = [resp EXCEPT ![r] = ServerError]
             /\ db' = db
        ELSE IF Edge[node] # END
        THEN UNCHANGED <<db, resp>>
        ELSE IF ~ValidOutput(output)
        THEN /\ resp' = [resp EXCEPT ![r] = ServerError]
             /\ db' = db
        ELSE /\ db' = Append(db, submission)
             /\ resp' = [resp EXCEPT ![r] = Ok(submission.id)]

\* GET /submissions/{submission_id}
NotFound == [status |-> 404, body |-> <<>>]

get_submission(submission_id) ==
    LET rows == {i \in 1..Len(db) : db[i].id = submission_id}
    IN  IF rows = {} THEN NotFound
        ELSE [status |-> 200,
              body |-> SubmissionResponse(to_dict(db[CHOOSE i \in rows : TRUE]))]

\* a node writing its update into the state of every run under way, as if
\* the controller kept one state for all of them
Commit_shared(r, node, result, outcome) ==
    /\ pc' = [pc EXCEPT ![r] = IF result.raised THEN "raised" ELSE Edge[node]]
    /\ state' = [q \in Runs |->
                    IF result.raised \/ (q # r /\ pc[q] \notin Nodes) THEN state[q]
                    ELSE ApplyUpdate(state[q], result.upd)]
    /\ hist' = [hist EXCEPT ![r] = Append(@, node)]
    /\ calls' = [calls EXCEPT ![r][node] = @ + result.call.invoked]
    /\ last' = [last EXCEPT ![r] =
                   [node |-> node,
                    before |-> state[r],
                    outcome |-> IF result.call.invoked > 0 THEN outcome ELSE NoOutcome,
                    raised |-> result.raised, call |-> result.call]]
    /\ AfterRun(r, node, result)
    /\ UNCHANGED <<mock_mode, service, tool, limiter>>

\* one node of the compiled graph runs for run r: its update is merged into
\* the state and the run moves along the node's edge; an exception leaves
\* workflow.invoke and run(); after the last node analyze goes on to its end
Commit(r, node, result, outcome) ==
    /\ pc' = [pc EXCEPT ![r] = IF result.raised THEN "raised" ELSE Edge[node]]
    /\ state' = [state EXCEPT ![r] = IF result.raised THEN @
                                     ELSE ApplyUpdate(@, result.upd)]
    /\ hist' = [hist EXCEPT ![r] = Append(@, node)]
    /\ calls' = [calls EXCEPT ![r][node] = @ + result.call.invoked]
    /\ last' = [last EXCEPT ![r] =
                   [node |-> node,
                    before |-> state[r],
                    outcome |-> IF result.call.invoked > 0 THEN outcome ELSE NoOutcome,
                    raised |-> result.raised, call |-> result.call]]
    /\ AfterRun(r, node, result)
    /\ UNCHANGED <<mock_mode, service, tool, limiter>>

Intake(r) ==
    /\ pc[r] = "intake_validate"
    /\ Commit(r, "intake_validate", _intake_validate(state[r]), NoOutcome)

Planner(r) ==
    /\ pc[r] = "planner"
    /\ Commit(r, "planner", _planner(state[r]), NoOutcome)

Sizing(r) ==
    /\ pc[r] = "sizing_estimator"
    /\ Commit(r, "sizing_estimator", _sizing(state[r]), NoOutcome)

Architecture(r) ==
    /\ pc[r] = "architecture_generator"
    /\ \E o \in ServiceOutcomes("architecture_generator") :
           Commit(r, "architecture_generator", _architecture(state[r], mock_mode, o), o)

Apis(r) ==
    /\ pc[r] = "api_designer"
    /\ \E o \in ServiceOutcomes("api_designer") :
           Commit(r, "api_designer", _apis(state[r], mock_mode, o), o)

PerfRel(r) ==
    /\ pc[r] = "performance_reliability"
    /\ Commit(r, "performance_reliability", _perf_rel(state[r]), NoOutcome)

Security(r) ==
    /\ pc[r] = "security_compliance"
    /\ \E o \in ServiceOutcomes("security_compliance") :
           Commit(r, "security_compliance", _security(state[r], mock_mode, o), o)

Final(r) ==
    /\ pc[r] = "final_report"
    /\ \E o \in ServiceOutcomes("final_report") :
           Commit(r, "final_report", _final(state[r], mock_mode, o), o)

Next ==
    \E r \in Runs :
        \/ \E payload \in Payloads : Analyze(r, payload)
        \/ Intake(r)
        \/ Planner(r)
        \/ Sizing(r)
        \/ Architecture(r)
        \/ Apis(r)
        \/ PerfRel(r)
        \/ Security(r)
        \/ Final(r)

Spec == Init /\ [][Next]_vars

\* requests served concurrently by a controller built with a credential, the
\* service being flaky
InitConcurrent ==
    /\ mock_mode = FALSE
    /\ service = "flaky"
    /\ pc = [r \in Runs |-> "idle"]
    /\ state = [r \in Runs |-> EmptyDict]
    /\ hist = [r \in Runs |-> <<>>]
    /\ calls = [r \in Runs |-> [n \in Nodes |-> 0]]
    /\ last = [r \in Runs |-> NoLast]
    /\ db = <<>>
    /\ resp = [r \in Runs |-> NoResponse]
    /\ tool = NoTool
    /\ InitLimiter

SpecConcurrent == InitConcurrent /\ [][Next]_vars

(***************************************************************************)
(* The pure functions and the stateless endpoints.  A call is drawn with   *)
(* its arguments at the start; the one step applies the function.  The     *)
(* two tests of tests/test_tools.py call their function twice, on          *)
(* arguments that differ in one.                                           *)
(***************************************************************************)
\* longest list of compliance flags, and of data types, given to risk_checklist
MaxTags == 2

ToolCall(fn, args) == [fn |-> fn, args |-> args, res |-> <<>>, done |-> FALSE]

\* test_calc_qps_increases_with_concurrency: two calls that differ in
\* peak_concurrency; burst_factor is the default or one of _sizing's two
CalcQpsArgs ==
    { << [dau |-> dau, peak_concurrency |-> pair[1], read_write_ratio |-> ratio,
          burst_tenths |-> burst],
         [dau |-> dau, peak_concurrency |-> pair[2], read_write_ratio |-> ratio,
          burst_tenths |-> burst] >> :
        dau \in {1000, 8640000, 10000000},
        pair \in {c \in {1, 10, 50, 100, 500, 1000} \X {1, 10, 50, 100, 500, 1000} :
                     c[1] < c[2]},
        ratio \in {Rat(1, 1), Rat(4, 1), Rat(1, 2)},
        burst \in {DefaultBurstTenths, 14, 18} }

\* test_calc_storage_retention_scaling: two calls that differ in retention_days
CalcStorageArgs ==
    { << [records_per_user |-> rpu, avg_record_size_kb |-> size,
          retention_days |-> pair[1], dau |-> dau],
         [records_per_user |-> rpu, avg_record_size_kb |-> size,
          retention_days |-> pair[2], dau |-> dau] >> :
        rpu \in {1, 10, 12},
        size \in {1, 5, 8},
        pair \in {d \in {1, 10, 20, 365} \X {1, 10, 20, 365} : d[1] < d[2]},
        dau \in {1, 100, 1000} }

\* the tags given to risk_checklist, in lower, upper and mixed case
Tags == {"hipaa", "Phi", "PCI", "card", "pii", "GDPR"}

RECURSIVE SeqsUpTo(_, _)
SeqsUpTo(S, n) ==
    IF n = 0 THEN {<<>>}
    ELSE LET shorter == SeqsUpTo(S, n - 1)
         IN  shorter \cup {Append(q, x) : q \in shorter, x \in S}

RiskChecklistArgs ==
    { [compliance_flags |-> flags, data_types |-> types] :
        flags \in SeqsUpTo(Tags, MaxTags), types \in SeqsUpTo(Tags, MaxTags) }

\* payloads posted to /api/validate: budget levels and traffic patterns in
\* and out of the allowed sets, the other fields valid or not
ValidateArgs ==
    { [ProfileA(budget) EXCEPT !.traffic_pattern = pattern, !.dau = dau,
                               !.peak_concurrent_users = pcu] :
        budget \in {"low", "medium", "high", "ultra", "Low", ""},
        pattern \in {"steady", "spiky", "erratic", "STEADY"},
        dau \in {0, 1000},
        pcu \in {NoneInt, 0, 500} }

\* payloads posted to /api/estimate
EstimateArgs ==
    { [ProfileA("medium") EXCEPT !.dau = dau, !.peak_concurrent_users = pcu,
                                 !.read_write_ratio = ratio,
                                 !.traffic_pattern = pattern] :
        dau \in {0, 5, 15, 1000, 10000000},
        pcu \in {NoneInt, 1, 500},
        ratio \in {Rat(1, 1), Rat(3, 1), Rat(4, 1)},
        pattern \in {"steady", "spiky"} }

ToolCalls ==
    {ToolCall("calc_qps", a) : a \in CalcQpsArgs}
    \cup {ToolCall("calc_storage", a) : a \in CalcStorageArgs}
    \cup {ToolCall("risk_checklist", a) : a \in RiskChecklistArgs}
    \cup {ToolCall("validate", a) : a \in ValidateArgs}
    \cup {ToolCall("estimate", a) : a \in EstimateArgs}

InitTools ==
    /\ mock_mode = TRUE
    /\ service = "any"
    /\ pc = [r \in Runs |-> "idle"]
    /\ state = [r \in Runs |-> EmptyDict]
    /\ hist = [r \in Runs |-> <<>>]
    /\ calls = [r \in Runs |-> [n \in Nodes |-> 0]]
    /\ last = [r \in Runs |-> NoLast]
    /\ db = <<>>
    /\ resp = [r \in Runs |-> NoResponse]
    /\ tool \in ToolCalls
    /\ InitLimiter

Return(res) ==
    /\ ~tool.done
    /\ tool' = [tool EXCEPT !.res = res, !.done = TRUE]
    /\ UNCHANGED <<mock_mode, service, pc, state, hist, calls, last, db, resp, limiter>>

CalcQps ==
    /\ tool.fn = "calc_qps"
    /\ Return([i \in 1..2 |->
                  calc_qps(tool.args[i].dau, tool.args[i].peak_concurrency,
                           tool.args[i].read_write_ratio,
                           tool.args[i].burst_tenths)])

CalcStorage ==
    /\ tool.fn = "calc_storage"
    /\ Return([i \in 1..2 |->
                  calc_storage(tool.args[i].records_per_user,
                               tool.args[i].avg_record_size_kb,
                               tool.args[i].retention_days, tool.args[i].dau)])

RiskChecklist ==
    /\ tool.fn = "risk_checklist"
    /\ Return(risk_checklist(tool.args.compliance_flags, tool.args.data_types))

\* main.validate: 200 {"valid": true}, or 400 when InputPayload raises
Validate ==
    /\ tool.fn = "validate"
    /\ Return([status |-> IF ValidInput(tool.args) THEN 200 ELSE 400])

\* main.estimate: the qps of _sizing on the dumped payload, or 400
Estimate ==
    /\ tool.fn = "estimate"
    /\ Return(IF ValidInput(tool.args)
              THEN [status |-> 200,
                    qps |-> _sizing("input" :> model_dump(tool.args))
                                .upd["sizing"].qps]
              ELSE [status |-> 400, qps |-> <<>>])

NextTools ==
    \/ CalcQps
    \/ CalcStorage
    \/ RiskChecklist
    \/ Validate
    \/ Estimate

SpecTools == InitTools /\ [][NextTools]_vars

(***************************************************************************)
(* SpecLimiter: rate_limiter invoked for one request after the other, the  *)
(* clock never going back.                                                 *)
(***************************************************************************)
pipeline == <<mock_mode, service, pc, state, hist, calls, last, db, resp, tool>>

\* a service that has had no request for analyze
InitIdle ==
    /\ mock_mode = TRUE
    /\ service = "any"
    /\ pc = [r \in Runs |-> "idle"]
    /\ state = [r \in Runs |-> EmptyDict]
    /\ hist = [r \in Runs |-> <<>>]
    /\ calls = [r \in Runs |-> [n \in Nodes |-> 0]]
    /\ last = [r \in Runs |-> NoLast]
    /\ db = <<>>
    /\ resp = [r \in Runs |-> NoResponse]
    /\ tool = NoTool

InitSequential == InitIdle /\ InitLimiter

\* the invocations so far, returned or raised
Requests ==
    LET ip1 == CHOOSE ip \in IPs : TRUE
        ip2 == CHOOSE ip \in IPs : ip # ip1
    IN  served[ip1].admitted + served[ip1].rejected
        + served[ip2].admitted + served[ip2].rejected

\* time passes
Tick ==
    /\ clock < MaxTicks
    /\ clock' = clock + 1
    /\ UNCHANGED <<pipeline, rate_tokens, worker, served, lim>>

\* one request goes through rate_limiter while no other is in it
RateLimiter(ip) ==
    LET res == rate_limiter(rate_tokens, ip, clock)
    IN  /\ Requests < MaxRequests
        /\ \A t \in Threads : worker[t].pc = "idle"
        /\ rate_tokens' = res.map
        /\ served' = [served EXCEPT ![ip] =
                          IF res.status = 200
                          THEN [@ EXCEPT !.admitted = @ + 1]
                          ELSE [@ EXCEPT !.rejected = @ + 1]]
        /\ lim' = [ip |-> ip, now |-> clock, before |-> rate_tokens,
                   status |-> res.status]
        /\ UNCHANGED <<pipeline, clock, worker>>

NextLimiter ==
    \/ Tick
    \/ \E ip \in IPs : RateLimiter(ip)

SpecLimiter == InitSequential /\ [][NextLimiter]_vars

(***************************************************************************)
(* SpecLimiterThreads: rate_limiter is a plain def, so FastAPI runs it in  *)
(* the threadpool and the invocations of requests that arrive together     *)
(* interleave.  One action per statement; the two statements that read a   *)
(* token count and write it back are two actions each.  A thread's local   *)
(* `tokens` is the stored dict itself when the caller had an entry         *)
(* (shared), a dict of its own when it had none.  An invocation that       *)
(* meets no other runs as in SpecLimiter.                                  *)
(***************************************************************************)
\* the caller whose requests arrive together
Caller == "10.0.0.1"

Busy == {t \in Threads : worker[t].pc # "idle"}

\* the dict the local `tokens` of a thread refers to
Cur(t) ==
    IF worker[t].shared THEN rate_tokens[worker[t].ip] ELSE worker[t].tokens

\* an assignment to an item of that dict, the thread moving on
Write(t, bucket, next) ==
    IF worker[t].shared
    THEN /\ rate_tokens' = [rate_tokens EXCEPT ![worker[t].ip] = bucket]
         /\ worker' = [worker EXCEPT ![t].pc = next]
    ELSE /\ worker' = [worker EXCEPT ![t].pc = next, ![t].tokens = bucket]
         /\ UNCHANGED rate_tokens

\* _RATE_LIMIT["tokens"][ip] = tokens, the thread leaving rate_limiter: a
\* dict of the thread's own replaces the stored one, which the other thread
\* keeps if it holds it
DictStore(t) ==
    IF worker[t].shared
    THEN /\ worker' = [worker EXCEPT ![t] = Idle]
         /\ UNCHANGED rate_tokens
    ELSE /\ rate_tokens' = (worker[t].ip :> worker[t].tokens) @@ rate_tokens
         /\ worker' =
               [u \in Threads |->
                   IF u = t THEN Idle
                   ELSE IF worker[u].pc # "idle" /\ worker[u].shared
                           /\ worker[u].ip = worker[t].ip
                   THEN [worker[u] EXCEPT !.shared = FALSE,
                                          !.tokens = rate_tokens[worker[u].ip]]
                   ELSE worker[u]]

\* ip = ...; now = time.time()
Enter(t) ==
    /\ worker[t].pc = "idle"
    /\ Requests + Cardinality(Busy) < MaxRequests
    /\ served[Caller].stepped < MaxStepped
    /\ worker' = [worker EXCEPT ![t] = [Idle EXCEPT !.pc = "get", !.ip = Caller,
                                                    !.now = clock]]
    /\ served' = [served EXCEPT ![Caller].stepped = @ + 1]
    /\ UNCHANGED <<pipeline, rate_tokens, clock, lim>>

\* tokens = _RATE_LIMIT["tokens"].get(ip, {...})
GetBucket(t) ==
    /\ worker[t].pc = "get"
    /\ worker' = [worker EXCEPT ![t] =
                      IF worker[t].ip \in DOMAIN rate_tokens
                      THEN [@ EXCEPT !.pc = "elapsed", !.shared = TRUE]
                      ELSE [@ EXCEPT !.pc = "elapsed", !.shared = FALSE,
                                     !.tokens = DefaultBucket(worker[t].now)]]
    /\ UNCHANGED <<pipeline, rate_tokens, clock, served, lim>>

\* elapsed = now - tokens["ts"]
Elapsed(t) ==
    /\ worker[t].pc = "elapsed"
    /\ worker' = [worker EXCEPT ![t].pc = "refill",
                                ![t].elapsed = worker[t].now - Cur(t).ts]
    /\ UNCHANGED <<pipeline, rate_tokens, clock, served, lim>>

\* tokens["tokens"] = min(capacity, tokens["tokens"] + ...): the read
RefillRead(t) ==
    /\ worker[t].pc = "refill"
    /\ worker' = [worker EXCEPT ![t].pc = "refill_store",
                                ![t].reg = Cur(t).tokens]
    /\ UNCHANGED <<pipeline, rate_tokens, clock, served, lim>>

\* tokens["tokens"] = min(capacity, tokens["tokens"] + ...): the assignment
RefillStore(t) ==
    /\ worker[t].pc = "refill_store"
    /\ Write(t, [Cur(t) EXCEPT !.tokens = Refilled(worker[t].reg, worker[t].elapsed)],
             "stamp")
    /\ UNCHANGED <<pipeline, clock, served, lim>>

\* tokens["ts"] = now
Stamp(t) ==
    /\ worker[t].pc = "stamp"
    /\ Write(t, [Cur(t) EXCEPT !.ts = worker[t].now], "test")
    /\ UNCHANGED <<pipeline, clock, served, lim>>

\* if tokens["tokens"] < 1
Test(t) ==
    /\ worker[t].pc = "test"
    /\ worker' = [worker EXCEPT ![t].pc =
                      IF Cur(t).tokens < OneToken THEN "reject" ELSE "take"]
    /\ UNCHANGED <<pipeline, rate_tokens, clock, served, lim>>

\* _RATE_LIMIT["tokens"][ip] = tokens; raise HTTPException(429)
Reject(t) ==
    /\ worker[t].pc = "reject"
    /\ DictStore(t)
    /\ served' = [served EXCEPT ![worker[t].ip].rejected = @ + 1]
    /\ UNCHANGED <<pipeline, clock, lim>>

\* tokens["tokens"] -= 1: the read
TakeRead(t) ==
    /\ worker[t].pc = "take"
    /\ worker' = [worker EXCEPT ![t].pc = "take_store",
                                ![t].reg = Cur(t).tokens]
    /\ UNCHANGED <<pipeline, rate_tokens, clock, served, lim>>

\* tokens["tokens"] -= 1: the assignment
TakeStore(t) ==
    /\ worker[t].pc = "take_store"
    /\ Write(t, [Cur(t) EXCEPT !.tokens = worker[t].reg - OneToken], "store")
    /\ UNCHANGED <<pipeline, clock, served, lim>>

\* _RATE_LIMIT["tokens"][ip] = tokens; the request is let through
Store(t) ==
    /\ worker[t].pc = "store"
    /\ DictStore(t)
    /\ served' = [served EXCEPT ![worker[t].ip].admitted = @ + 1]
    /\ UNCHANGED <<pipeline, clock, lim>>

NextThreads ==
    \/ Tick
    \/ RateLimiter(Caller)
    \/ \E t \in Threads :
          \/ Enter(t)
          \/ GetBucket(t)
          \/ Elapsed(t)
          \/ RefillRead(t)
          \/ RefillStore(t)
          \/ Stamp(t)
          \/ Test(t)
          \/ Reject(t)
          \/ TakeRead(t)
          \/ TakeStore(t)
          \/ Store(t)

SpecLimiterThreads == InitSequential /\ [][NextThreads]_vars

(***************************************************************************)
(* Properties.                                                             *)
(***************************************************************************)
\* the nodes that call _call_llm, and those that read the answer with .get
GeneratingNodes ==
    {"architecture_generator", "api_designer", "security_compliance", "final_report"}

ObjectNodes == {"architecture_generator", "security_compliance", "final_report"}

\* the last node of run r asked the service and got a text that parses
GotJson(r) ==
    /\ last[r].call.invoked > 0
    /\ ~last[r].outcome.raise
    /\ Parses(StripFence(last[r].outcome))

\* the document parsed from the text the last node of run r got
ParsedDoc(r) == StripFence(last[r].outcome).body

\* the state the last node of run r leaves when every call yields the fallback
FallbackState(r) ==
    ApplyUpdate(last[r].before,
                NodeFn(last[r].node, last[r].before, TRUE, NoOutcome).upd)

\* C1: no run started from a validated payload ever ends in a failure state:
\* whatever the service does, no node raises out of the controller.
C1_NoFailureReachable == \A r \in Runs : pc[r] # "raised"

\* C2: a _call_llm call that reached the service never lets an exception out;
\* it returns the caller's fallback when the service call raised or when the
\* text left after fence stripping does not parse as JSON, and the parsed
\* document otherwise.
C2_CallLlmContract ==
    \A r \in Runs :
        last[r].call.invoked > 0 =>
            /\ ~last[r].call.exc
            /\ last[r].call.res =
                  IF GotJson(r) THEN ParsedDoc(r) ELSE last[r].call.fallback

\* C2 witness: the service answered a fenced document whose closing fence is
\* missing, the chopped text did not parse, and the node went on with the
\* fallback
C2_Witness ==
    \E r \in Runs :
        /\ last[r].call.invoked > 0
        /\ last[r].outcome.fence = "json"
        /\ ~last[r].outcome.closed
        /\ last[r].outcome.body.k = "obj"
        /\ last[r].call.res = last[r].call.fallback
        /\ ~last[r].raised

\* C3: when the service answers well-formed JSON that is no object to a node
\* that expects an object, the node writes exactly what it writes from its
\* static fallback.
C3_IncompatibleJsonFallsBack ==
    \A r \in Runs :
        (last[r].node \in ObjectNodes /\ GotJson(r) /\ ParsedDoc(r).k # "obj")
            => (~last[r].raised /\ state[r] = FallbackState(r))

\* C4: on a controller built without a credential no call to the service is
\* ever issued, and every _call_llm call returns the node's fallback.
C4_OfflineNoServiceCall ==
    mock_mode =>
        \A r \in Runs :
            /\ \A n \in Nodes : calls[r][n] = 0
            /\ last[r].call.invoked = 0
            /\ last[r].call.res = last[r].call.fallback
            /\ last[r].node \in GeneratingNodes =>
                  (~last[r].raised /\ state[r] = FallbackState(r))

\* C4 witness: an offline run completed, its last node returning the fallback
C4_Witness ==
    /\ mock_mode
    /\ \E r \in Runs :
          /\ pc[r] = END
          /\ last[r].node = "final_report"
          /\ last[r].call.res = FinalFallback(state[r]["input"])

\* the stages in the order of the pipeline: Intake, Plan, Sizing,
\* Architecture, API design, Performance/Reliability, Security/Compliance, Final
Order ==
    <<"intake_validate", "planner", "sizing_estimator", "architecture_generator",
      "api_designer", "performance_reliability", "security_compliance",
      "final_report">>

\* C5: the stages of a run execute in the fixed order, none skipped, repeated
\* or reordered: what has run is always an initial part of the order, the
\* next stage is the next of the order, and a run ends exactly when Final,
\* the eighth stage, has run.
C5_FixedStageOrder ==
    \A r \in Runs :
        /\ Len(hist[r]) <= Len(Order)
        /\ hist[r] = SubSeq(Order, 1, Len(hist[r]))
        /\ pc[r] \in Nodes => pc[r] = Order[Len(hist[r]) + 1]
        /\ pc[r] = END => hist[r] = Order
        /\ (hist[r] = Order /\ ~last[r].raised) => pc[r] = END

\* C5 witness: a run that went through all eight stages and ended
C5_Witness == \E r \in Runs : pc[r] = END /\ hist[r] = Order

\* C6: a run issues at most one service call per stage, none from Intake,
\* Plan, Sizing and Performance/Reliability, none repeated after a failure,
\* hence at most four.
C6_AtMostOneCallPerStage ==
    \A r \in Runs :
        /\ \A n \in Nodes : calls[r][n] <= 1
        /\ \A n \in Nodes \ GeneratingNodes : calls[r][n] = 0
        /\ calls[r]["architecture_generator"] + calls[r]["api_designer"]
              + calls[r]["security_compliance"] + calls[r]["final_report"] <= 4
        /\ last[r].outcome.raise => last[r].call.invoked = 1

\* C6 witness: a completed run that called the service from each of the four
\* generating stages, the last call failing
C6_Witness ==
    \E r \in Runs :
        /\ pc[r] = END
        /\ \A n \in GeneratingNodes : calls[r][n] = 1
        /\ last[r].outcome.raise

NoDuplicates(items) ==
    \A i, j \in 1..Len(items) : items[i] = items[j] => i = j

\* C7: in the terminal state the assumptions contain no string twice and are
\* the first occurrences, in order, of what the stages contributed.
C7_FinalAssumptionsUnique ==
    \A r \in Runs :
        pc[r] = END =>
            /\ NoDuplicates(state[r]["assumptions"].v)
            /\ state[r]["assumptions"].v
                  = Dedup(last[r].before["assumptions"].v, {})

OutputFields ==
    {"summary", "assumptions", "architecture_options", "recommended_option",
     "tech_stack", "sizing", "api_design", "performance_plan", "security_plan",
     "reliability_plan", "risks", "phased_rollout", "mermaid_flow",
     "mermaid_components", "observability", "threat_model"}

\* C8: in the terminal state every output field of the report is present and
\* none is null.
C8_OutputFieldsPresentNotNull ==
    \A r \in Runs :
        pc[r] = END =>
            \A key \in OutputFields :
                /\ key \in DOMAIN state[r]
                /\ key # "sizing" => state[r][key].k # "null"

\* the value of a field after the merge of the parsed answer with the
\* fallback of the last node of run r
Merged(r, key) ==
    IF key \in DOMAIN ParsedDoc(r).f THEN ParsedDoc(r).f[key]
    ELSE last[r].call.fallback.f[key]

C10_OfflineDeterministic ==
    mock_mode =>
        \A r1, r2 \in Runs :
            (pc[r1] = END /\ pc[r2] = END
                /\ state[r1]["input"] = state[r2]["input"])
                => state[r1] = state[r2]

\* C10 witness: two offline runs on the same input, both completed
C10_Witness ==
    /\ mock_mode
    /\ \E r1, r2 \in Runs :
          /\ r1 # r2
          /\ pc[r1] = END
          /\ pc[r2] = END
          /\ state[r1]["input"] = state[r2]["input"]
          /\ state[r1] = state[r2]

\* the threat list the Security stage left for the Final stage of run r
UpstreamThreats(r) ==
    LET tm == StateGet(last[r].before, "threat_model")
    IN  IF tm.k = "list" THEN tm.v ELSE <<>>

\* C11: in the terminal state of a run, risks is the threat list the Security
\* stage produced followed by exactly the two fixed statements (dependency
\* latency/availability, then cost overrun); so it has at least two elements
\* and ends with those two.
C11_RisksAreThreatsPlusTwo ==
    \A r \in Runs :
        pc[r] = END =>
            LET risks == state[r]["risks"].v
                n == Len(risks)
            IN  /\ state[r]["risks"].k = "list"
                /\ risks = UpstreamThreats(r)
                              \o <<"LLM dependency latency/availability; keep mock fallback",
                                   "Cost overrun if prompt volume spikes; add budget guardrails">>
                /\ n >= 2
                /\ risks[n - 1] = "LLM dependency latency/availability; keep mock fallback"
                /\ risks[n] = "Cost overrun if prompt volume spikes; add budget guardrails"
                /\ state[r]["threat_model"].v = UpstreamThreats(r)

\* C11 witness: a completed run whose Security stage took the threat model of
\* the service; risks is that list and the two statements
C11_Witness ==
    \E r \in Runs :
        /\ pc[r] = END
        /\ UpstreamThreats(r) = <<"Credential stuffing">>
        /\ Len(state[r]["risks"].v) = 3
        /\ state[r]["risks"].v[1] = "Credential stuffing"

\* C12: offline, the terminal state recommends "MVP (monolith)" when the
\* budget level is low and "Scale-out" when it is medium or high, and the
\* recommendation is the title of one of the exactly two fallback options.
C12_OfflineRecommendation ==
    mock_mode =>
        \A r \in Runs :
            pc[r] = END =>
                LET budget == state[r]["input"].budget_level
                    options == state[r]["architecture_options"].v
                    rec == state[r]["recommended_option"]
                IN  /\ budget = "low" => rec = JStr("MVP (monolith)")
                    /\ budget \in {"medium", "high"} => rec = JStr("Scale-out")
                    /\ Len(options) = 2
                    /\ options[1].title # options[2].title
                    /\ \E i \in 1..2 : rec = JStr(options[i].title)

\* C12 witness: offline runs completed on a low and on a high budget, the
\* first recommending the monolith, the second the scale-out option
C12_Witness ==
    /\ mock_mode
    /\ \E r1, r2 \in Runs :
          /\ pc[r1] = END
          /\ pc[r2] = END
          /\ state[r1]["input"].budget_level = "low"
          /\ state[r1]["recommended_option"] = JStr("MVP (monolith)")
          /\ state[r2]["input"].budget_level = "high"
          /\ state[r2]["recommended_option"] = JStr("Scale-out")

\* C13 as stated: of two calc_qps calls that differ only in peak_concurrency,
\* the one with the larger peak_concurrency returns a strictly larger peak_qps.
C13_PeakQpsStrictlyIncreasing ==
    (tool.fn = "calc_qps" /\ tool.done) =>
        tool.res[2].peak_qps > tool.res[1].peak_qps

\* C13 amended: of two calc_qps calls (burst factor 1.4, 1.5 or 1.8) that
\* differ only in peak_concurrency, the one with the larger peak_concurrency
\* returns a peak_qps that is not smaller, and a strictly larger one when the
\* smaller peak_concurrency is at least dau / 86400, that is when
\* peak_concurrency / 10 and not dau * 0.1 / 86400 is the base rate of both.
C13_PeakQpsIncreasingAboveFloor ==
    (tool.fn = "calc_qps" /\ tool.done) =>
        /\ tool.res[2].peak_qps >= tool.res[1].peak_qps
        /\ tool.args[1].peak_concurrency * 86400 >= tool.args[1].dau
              => tool.res[2].peak_qps > tool.res[1].peak_qps

\* C13 witness: the calls of the test, concurrency 100 and 500 on 1000 users:
\* 15.00 and 75.00 qps
C13_Witness ==
    /\ tool.fn = "calc_qps"
    /\ tool.done
    /\ tool.args[1].dau = 1000
    /\ tool.args[1].peak_concurrency = 100
    /\ tool.args[2].peak_concurrency = 500
    /\ tool.args[1].burst_tenths = 15
    /\ tool.res[1].peak_qps = 1500
    /\ tool.res[2].peak_qps = 7500

\* C14 as stated: of two calc_storage calls that differ only in
\* retention_days, the one with the larger retention_days returns a strictly
\* larger total_gb_retention.
C14_RetentionTotalStrictlyIncreasing ==
    (tool.fn = "calc_storage" /\ tool.done) =>
        tool.res[2].total_gb_retention > tool.res[1].total_gb_retention

\* the unrounded retention totals of the two calls differ by more than 0.001 GB
TotalsApart ==
    RLess(Rat(1, 1000),
          Rat(tool.args[1].dau * tool.args[1].records_per_user
                  * tool.args[1].avg_record_size_kb
                  * (tool.args[2].retention_days - tool.args[1].retention_days),
              1024 * 1024))

\* C14 amended: of two calc_storage calls that differ only in retention_days,
\* the one with the larger retention_days returns a total_gb_retention that
\* is not smaller, and a strictly larger one when the unrounded totals differ
\* by more than 0.001 GB.
C14_RetentionTotalIncreasing ==
    (tool.fn = "calc_storage" /\ tool.done) =>
        /\ tool.res[2].total_gb_retention >= tool.res[1].total_gb_retention
        /\ TotalsApart =>
              tool.res[2].total_gb_retention > tool.res[1].total_gb_retention

\* C14 witness: the calls of the test, 10 and 20 days of 10 records of 5 KB
\* for 1000 users: 0.477 and 0.954 GB
C14_Witness ==
    /\ tool.fn = "calc_storage"
    /\ tool.done
    /\ tool.args[1] = [records_per_user |-> 10, avg_record_size_kb |-> 5,
                       retention_days |-> 10, dau |-> 1000]
    /\ tool.args[2].retention_days = 20
    /\ TotalsApart
    /\ tool.res[1].total_gb_retention = 477
    /\ tool.res[2].total_gb_retention = 954

\* C15: constructing an InputPayload fails for every budget level outside
\* {low, medium, high} and for every traffic pattern outside {steady, spiky},
\* and succeeds for every value inside when the other fields are valid.
C15_EnumValidation ==
    (tool.fn = "validate" /\ tool.done) =>
        LET inBudget == tool.args.budget_level \in {"low", "medium", "high"}
            inPattern == tool.args.traffic_pattern \in {"steady", "spiky"}
            othersValid ==
                /\ tool.args.dau >= 1
                /\ tool.args.peak_rps >= 1
                /\ tool.args.read_write_ratio.n > 0
                /\ tool.args.peak_concurrent_users = NoneInt
                      \/ tool.args.peak_concurrent_users >= 1
        IN  /\ ~inBudget => tool.res.status = 400
            /\ ~inPattern => tool.res.status = 400
            /\ (inBudget /\ inPattern /\ othersValid) => tool.res.status = 200

\* C15 witness: the payload of the validation tests with budget "ultra" was
\* rejected
C15_Witness ==
    /\ tool.fn = "validate"
    /\ tool.done
    /\ tool.args.budget_level = "ultra"
    /\ tool.args.traffic_pattern = "steady"
    /\ tool.args.dau = 1000
    /\ tool.args.peak_concurrent_users = NoneInt
    /\ tool.res.status = 400

\* C16: for every valid payload the throughput computed for it has
\* read_qps + write_qps equal to peak_qps within 1e-5 relative tolerance
\* (math.isclose), on the values returned, rounded to 2 decimals.
C16_ReadPlusWriteIsPeak ==
    (tool.fn = "estimate" /\ tool.done /\ tool.res.status = 200) =>
        LET sum == tool.res.qps.read_qps + tool.res.qps.write_qps
            peak == tool.res.qps.peak_qps
            diff == IF sum >= peak THEN sum - peak ELSE peak - sum
        IN  diff * 100000 <= Max2(sum, peak)

\* the tags of a category, in the letter cases explored
HealthTags == {"hipaa", "Phi"}

CardTags == {"PCI", "card"}

PersonalTags == {"pii"}

AnyTag(tags, S) == \E i \in 1..Len(tags) : tags[i] \in S

Count(items, x) == Cardinality({i \in 1..Len(items) : items[i] = x})

Before(items, x, y) ==
    \A i, j \in 1..Len(items) : (items[i] = x /\ items[j] = y) => i < j

\* C17: whatever the letter case of the tags, risk_checklist lists the
\* advisories of the matched categories (health: HIPAA or PHI among flags or
\* data types; card: PCI or CARD among them; personal: PII among the data
\* types) in the order health, card, personal, each exactly once; the
\* generic advisory appears exactly when no category matched and is then
\* the only element; a health tag among the data types yields the health
\* advisory.
C17_RiskChecklist ==
    (tool.fn = "risk_checklist" /\ tool.done) =>
        LET all == tool.args.compliance_flags \o tool.args.data_types
            health == AnyTag(all, HealthTags)
            card == AnyTag(all, CardTags)
            personal == AnyTag(tool.args.data_types, PersonalTags)
            res == tool.res
        IN  /\ Count(res, HealthAdvisory) = IF health THEN 1 ELSE 0
            /\ Count(res, CardAdvisory) = IF card THEN 1 ELSE 0
            /\ Count(res, PersonalAdvisory) = IF personal THEN 1 ELSE 0
            /\ Before(res, HealthAdvisory, CardAdvisory)
            /\ Before(res, HealthAdvisory, PersonalAdvisory)
            /\ Before(res, CardAdvisory, PersonalAdvisory)
            /\ Count(res, GenericAdvisory)
                  = IF health \/ card \/ personal THEN 0 ELSE 1
            /\ Count(res, GenericAdvisory) = 1 => Len(res) = 1
            /\ Len(res) = Count(res, HealthAdvisory) + Count(res, CardAdvisory)
                            + Count(res, PersonalAdvisory)
                            + Count(res, GenericAdvisory)
            /\ AnyTag(tool.args.data_types, {"Phi"}) => Count(res, HealthAdvisory) = 1

\* C17 witness: a lower-case card flag, and a mixed-case health tag after a
\* personal tag among the data types: the three advisories in priority order
C17_Witness ==
    /\ tool.fn = "risk_checklist"
    /\ tool.done
    /\ tool.args.compliance_flags = <<"card">>
    /\ tool.args.data_types = <<"pii", "Phi">>
    /\ tool.res = <<HealthAdvisory, CardAdvisory, PersonalAdvisory>>

\* the items of a list field of a state, none when the field is not set
Items(st, key) == IF key \in DOMAIN st THEN st[key].v ELSE <<>>

\* C19: after every stage that returned, each of the two accumulating fields
\* (assumptions, plan_steps) is its value before the stage followed by what
\* the stage returned for it, every other field the stage returned is exactly
\* the returned value, and every field it did not return, the input after
\* Intake included, is as it was before.
C19_StageFrame ==
    \A r \in Runs :
        (last[r].node # "none" /\ ~last[r].raised) =>
            LET before == last[r].before
                returned == NodeFn(last[r].node, before, mock_mode, last[r].outcome).upd
            IN  /\ DOMAIN state[r] \subseteq SchemaKeys
                /\ \A key \in {"assumptions", "plan_steps"} :
                      /\ Items(state[r], key) = Items(before, key) \o Items(returned, key)
                      /\ key \in DOMAIN state[r]
                            <=> key \in DOMAIN before \cup DOMAIN returned
                /\ \A key \in SchemaKeys \ {"assumptions", "plan_steps"} :
                      IF key \in DOMAIN returned
                      THEN key \in DOMAIN state[r] /\ state[r][key] = returned[key]
                      ELSE /\ key \in DOMAIN state[r] <=> key \in DOMAIN before
                           /\ key \in DOMAIN before => state[r][key] = before[key]
                /\ last[r].node # "intake_validate" =>
                      state[r]["input"] = before["input"]

\* C19 witness: after Plan the assumptions are Intake's note followed by the
\* planner's, the plan steps are set, and the input is the one Intake left
C19_Witness ==
    \E r \in Runs :
        /\ last[r].node = "planner"
        /\ last[r].before["assumptions"].v = <<"Inputs normalized">>
        /\ Len(state[r]["assumptions"].v) = 5
        /\ state[r]["assumptions"].v[1] = "Inputs normalized"
        /\ state[r]["assumptions"].v[5] = "Application domain: fintech"
        /\ Len(state[r]["plan_steps"].v) = 6
        /\ state[r]["input"] = last[r].before["input"]

\* the requests answered 200
Stored == {r \in Runs : resp[r].status = 200}

\* C20: a payload that violates an enum or a numeric bound is answered at
\* once with the error (400 naming the fields): no stage runs for it, no call
\* to the service is made, no submission is stored; no run ever starts on
\* such a payload.
C20_RejectionStartsNothing ==
    /\ \A r \in Runs :
          /\ pc[r] = "rejected" <=> resp[r].status = 400
          /\ resp[r].status = 400 =>
                /\ resp[r].detail # {}
                /\ hist[r] = <<>>
                /\ state[r] = EmptyDict
                /\ last[r] = NoLast
                /\ \A n \in Nodes : calls[r][n] = 0
          /\ "input" \in DOMAIN state[r] =>
                /\ state[r]["input"].budget_level \in {"low", "medium", "high"}
                /\ state[r]["input"].traffic_pattern \in {"steady", "spiky"}
                /\ state[r]["input"].dau >= 1
                /\ state[r]["input"].peak_rps >= 1
                /\ resp[r].status # 400
    /\ Len(db) = Cardinality(Stored)
    /\ \A r \in Stored :
          /\ pc[r] = END
          /\ db[resp[r].submission_id].input_json = json_dumps(state[r]["input"])

\* C20 witness: after a request was served and stored, a payload with a
\* budget level outside the allowed values was rejected; the table holds the
\* one row
C20_Witness ==
    \E r1, r2 \in Runs :
        /\ resp[r1].status = 200
        /\ db[resp[r1].submission_id].title = "TestApp"
        /\ resp[r2] = BadRequest({"budget_level"})
        /\ pc[r2] = "rejected"
        /\ hist[r2] = <<>>
        /\ Len(db) = 1

\* a run alone: the nodes from `node` on, started on the state st, the
\* service giving answers[n] to the call of node n; where it stops and the
\* state it stops with
RECURSIVE RunFrom(_, _, _)
RunFrom(node, st, answers) ==
    IF node = END THEN [pc |-> END, state |-> st]
    ELSE LET res == NodeFn(node, st, mock_mode,
                           IF node \in DOMAIN answers THEN answers[node]
                           ELSE NoOutcome)
         IN  IF res.raised THEN [pc |-> "raised", state |-> st]
             ELSE RunFrom(Edge[node], ApplyUpdate(st, res.upd), answers)

\* the answers the service may give to the calls of one run
AnswerVectors ==
    {a \in [GeneratingNodes -> UNION {ServiceOutcomes(n) : n \in GeneratingNodes}] :
        \A n \in GeneratingNodes : a[n] \in ServiceOutcomes(n)}

\* a step that runs a node of run r takes the state of r to what the node
\* makes of that state and of the answer to its call, and leaves the other
\* runs where and as they are; when the step stops the run (the last node
\* returned, or the node raised), the run is where, and holds what, it would
\* alone on its input, the answer to this step's call being the one it got
StepsOwnState ==
    \A r \in Runs :
        hist'[r] # hist[r] =>
            LET res == NodeFn(pc[r], state[r], mock_mode, last'[r].outcome)
            IN  /\ last'[r].before = state[r]
                /\ state'[r] = IF res.raised THEN state[r]
                               ELSE ApplyUpdate(state[r], res.upd)
                /\ \A q \in Runs \ {r} :
                      /\ state'[q] = state[q]
                      /\ pc'[q] = pc[q]
                      /\ hist'[q] = hist[q]
                      /\ calls'[q] = calls[q]
                      /\ last'[q] = last[q]
                /\ pc'[r] \in {END, "raised"} =>
                      \E answers \in AnswerVectors :
                          /\ pc[r] \in GeneratingNodes =>
                                answers[pc[r]] = last'[r].outcome
                          /\ RunFrom(EntryPoint, "input" :> state'[r]["input"], answers)
                                = [pc |-> pc'[r], state |-> state'[r]]

\* C18: runs served concurrently by the one controller are independent:
\* however their stages interleave, a stage of a run reads and writes the
\* state of that run only, and a run ends in the state it ends in when run
\* alone on the same input with the same answers of the service.
C18_RunsIndependent == [][StepsOwnState]_vars

\* C18 witness: the second request ended, on an architecture answered by
\* the service, while the first, received before it with another payload and
\* met by a service that was down, is still at a middle stage
C18_Witness ==
    /\ ~mock_mode
    /\ pc[2] = END
    /\ resp[2].status = 200
    /\ state[2]["architecture_options"] = LlmOptions
    /\ pc[1] = "security_compliance"
    /\ state[1]["architecture_options"] = JList(default_options)
    /\ state[1]["input"] # state[2]["input"]

\* the throughput formula on a peak concurrency that need not be whole:
\* base = max(dau * 0.1 / 86400, concurrency / 10), peak = base * burst,
\* read = peak * ratio / (1 + ratio), write = peak - read, in hundredths
ThroughputOf(dau, concurrency, ratio, burst_tenths) ==
    LET base == RMax(Rat(dau, 864000), RMul(concurrency, Rat(1, 10)))
        peak == RMul(base, Rat(burst_tenths, 10))
        read == RMul(peak, Rat(ratio.n, ratio.d + ratio.n))
    IN  [base_qps |-> Round(base, 100), peak_qps |-> Round(peak, 100),
         read_qps |-> Round(read, 100), write_qps |-> Round(RSub(peak, read), 100)]

\* the burst factor of the claim, in tenths: 1.8 for spiky traffic, else 1.4
BurstOf(pattern) == IF pattern = "spiky" THEN 18 ELSE 14

\* C21 as stated: the throughput of a payload without peak_concurrent_users
\* is the formula's on a peak concurrency of dau / 10, that of a payload with
\* one is the formula's on the value given; the burst factor is 1.8 for
\* spiky traffic and 1.4 otherwise.
C21_SizingDefaultsExact ==
    (tool.fn = "estimate" /\ tool.done /\ tool.res.status = 200) =>
        tool.res.qps =
            ThroughputOf(tool.args.dau,
                         IF tool.args.peak_concurrent_users = NoneInt
                         THEN Rat(tool.args.dau, 10)
                         ELSE Rat(tool.args.peak_concurrent_users, 1),
                         tool.args.read_write_ratio,
                         BurstOf(tool.args.traffic_pattern))

\* C21 amended: as stated, with the peak concurrency of a payload that gives
\* none being the whole quotient of dau by 10 (dau // 10, rounded down; 0
\* below 10 users).
C21_SizingDefaultsFloor ==
    (tool.fn = "estimate" /\ tool.done /\ tool.res.status = 200) =>
        tool.res.qps =
            ThroughputOf(tool.args.dau,
                         IF tool.args.peak_concurrent_users = NoneInt
                         THEN Rat(tool.args.dau \div 10, 1)
                         ELSE Rat(tool.args.peak_concurrent_users, 1),
                         tool.args.read_write_ratio,
                         BurstOf(tool.args.traffic_pattern))

\* C21 witness: 15 users, spiky, no peak concurrency given: concurrency 1,
\* base 0.10 and peak 0.18 qps
C21_Witness ==
    /\ tool.fn = "estimate"
    /\ tool.done
    /\ tool.args.dau = 15
    /\ tool.args.peak_concurrent_users = NoneInt
    /\ tool.args.traffic_pattern = "spiky"
    /\ tool.res.status = 200
    /\ tool.res.qps.base_qps = 10
    /\ tool.res.qps.peak_qps = 18

\* the runs answered 200 by analyze
Succeeded == {r \in Runs : resp[r].status = 200}

\* the record a run was answered with, read back by its identifier
ReadBack(r) == get_submission(resp[r].submission_id)

\* one record per successful analyze, found under the identifier returned,
\* whose input read back is the run's input
OneRecordEach ==
    /\ Len(db) = Cardinality(Succeeded)
    /\ \A r \in Succeeded :
          /\ Cardinality({i \in 1..Len(db) : db[i].id = resp[r].submission_id}) = 1
          /\ ReadBack(r).status = 200
          /\ ReadBack(r).body.id = resp[r].submission_id
          /\ ReadBack(r).body.input = state[r]["input"]
    /\ \A r, q \in Succeeded :
          resp[r].submission_id = resp[q].submission_id => r = q

RefilledCount ==
    IF lim.ip \in DOMAIN lim.before
    THEN Min2(capacity * OneToken,
              lim.before[lim.ip].tokens
              + (lim.now - lim.before[lim.ip].ts) * refill_rate)
    ELSE capacity * OneToken

C24_ConcurrentBucket ==
    /\ \A ip \in DOMAIN rate_tokens : rate_tokens[ip].tokens >= 0
    /\ \A ip \in IPs :
          served[ip].admitted * OneToken <= capacity * OneToken + clock * refill_rate

====
